---- MODULE Spec2Model ----
(***************************************************************************)
(* A model of the compaction state machine of slatedb-go                   *)
(* (slatedb/compactor_state.go) and of the sorted-run scan that its tests  *)
(* exercise.                                                               *)
(*                                                                         *)
(* Representation.                                                         *)
(*  - A Go pointer to a CoreDBState is an address into `heap`; the cells   *)
(*    the garbage collector may reclaim (referenced neither by the         *)
(*    CompactorState nor by a reader) are dropped from `heap`.             *)
(*  - uint32 is narrowed to the ids 0..MaxUint32 with MaxUint32 == 3; the  *)
(*    largest id keeps the role math.MaxUint32 has in the code.            *)
(*  - A ulid.ULID is a number 1..MaxFile, larger means flushed later.      *)
(*  - A Go string is a sequence of digit values: decimal digits for        *)
(*    strconv.Itoa / Atoi, base-32 digits for ULID.String / ulid.Parse.    *)
(*  - mo.Option[T] is a sequence of length at most one.                    *)
(***************************************************************************)
EXTENDS Integers, Sequences, FiniteSets, TLC

\* ------------------------------------------------------------------ bounds
\* level-0 file ids (ULIDs) are 1..MaxFile
MaxFile == 2
\* a submitted compaction lists at most MaxSources sources
MaxSources == 2
\* at most MaxInFlight compactions are in flight at once
MaxInFlight == 2
\* the in-flight compactions list at most MaxPending sources altogether
MaxPending == 2
\* the writer's lastCompactedWalSSTID ranges over 1..MaxWalID after the open
MaxWalID == 1
\* readers hold at most MaxReaders distinct snapshots
MaxReaders == 1
\* the keys of a sorted run's files are 1..MaxKey
MaxKey == 4
\* a scanned sorted run has at most MaxRunFiles files
MaxRunFiles == 3
\* a scan calls Next at most MaxNoneCalls times at and after the end
MaxNoneCalls == 2

\* ------------------------------------------------------- program constants
\* SourceIDType (iota + 1)
SortedRunID == 1
SSTID == 2
\* CompactionStatus (iota + 1)
Submitted == 1
\* math.MaxUint32, at the narrowed width
MaxUint32 == 3

ErrInvalidCompaction == "ErrInvalidCompaction"

\* ------------------------------------------------------------------ options
None == << >>
Some(v) == << v >>
IsPresent(o) == o # << >>
IsAbsent(o) == o = << >>
Get(o) == o[1]

\* ------------------------------------------------------------------ strings
\* strconv.Itoa for a non-negative int: its decimal digits
RECURSIVE Itoa(_)
Itoa(n) == IF n < 10 THEN << n >> ELSE Append(Itoa(n \div 10), n % 10)

RECURSIVE digitsValue(_)
digitsValue(s) ==
    IF s = << >> THEN 0
    ELSE 10 * digitsValue(SubSeq(s, 1, Len(s) - 1)) + s[Len(s)]

\* strconv.Atoi: the value, or absent for the syntax error
Atoi(s) ==
    IF s # << >> /\ \A i \in 1..Len(s) : s[i] \in 0..9
    THEN Some(digitsValue(s))
    ELSE None

\* uint32(int)
Uint32(n) == n % (MaxUint32 + 1)

\* ULID.String: 26 base-32 digits, most significant first
ULIDString(id) ==
    [i \in 1..26 |-> IF i = 26 THEN id % 32 ELSE IF i = 25 THEN (id \div 32) % 32 ELSE 0]

\* ulid.Parse: ErrDataSize unless 26 characters, ErrOverflow above '7'
ULIDParse(s) ==
    IF Len(s) # 26 \/ s[1] > 7 THEN None
    ELSE IF \E i \in 1..24 : s[i] # 0 THEN None
    ELSE Some(32 * s[25] + s[26])

\* ------------------------------------------------------------------ SourceID
newSourceIDSortedRun(id) == [typ |-> SortedRunID, value |-> Itoa(id)]

newSourceIDSST(id) == [typ |-> SSTID, value |-> ULIDString(id)]

sortedRunID(s) ==
    IF s.typ # SortedRunID THEN None
    ELSE IF IsAbsent(Atoi(s.value)) THEN None
    ELSE Some(Uint32(Get(Atoi(s.value))))

sstID(s) ==
    IF s.typ # SSTID THEN None
    ELSE ULIDParse(s.value)

\* ------------------------------------------------------------------ values
SRIds == 0..MaxUint32
Files == 1..MaxFile

\* SSTableID of the compacted kind and the handle that carries it
newSSTableIDCompacted(id) == [typ |-> "Compacted", value |-> id]
compactedID(id) == IF id.typ = "Compacted" THEN Some(id.value) ELSE None
Handle(id) == [id |-> newSSTableIDCompacted(id)]

newCompaction(sources, destination) ==
    [status |-> Submitted, sources |-> sources, destination |-> destination]

Range(s) == {s[i] : i \in 1..Len(s)}

\* the sequences over S of length at most n
SeqsUpTo(S, n) == UNION {[1..k -> S] : k \in 0..n}

\* the strictly decreasing sequences over a set of numbers
DecSeqs(S) ==
    {s \in SeqsUpTo(S, Cardinality(S)) :
        \A i \in 1..Len(s) : \A j \in 1..Len(s) : i < j => s[i] > s[j]}

SourceIDs ==
    {newSourceIDSortedRun(i) : i \in SRIds} \cup {newSourceIDSST(f) : f \in Files}

\* what a planner may submit
Compactions ==
    {newCompaction(s, d) : s \in SeqsUpTo(SourceIDs, MaxSources), d \in SRIds}

\* what an executor may hand to finishCompaction: the run's files are new
OutputRuns == {[id |-> i, sstList |-> << >>] : i \in SRIds}

\* the writer's view: level 0 newest first, its WAL counters, and what it
\* holds as watermark and as sorted runs
WriterStates ==
    {[l0 |-> [i \in 1..Len(s) |-> Handle(s[i])],
      l0LastCompacted |-> w,
      compacted |-> c,
      lastCompactedWalSSTID |-> n,
      nextWalSstID |-> n + 1] :
        s \in DecSeqs(Files), n \in 1..MaxWalID,
        w \in {None, Some(MaxFile)},
        c \in {<< >>, << [id |-> 0, sstList |-> << >>] >>}}

Addrs == 1..(MaxReaders + 2)

\* ------------------------------------------------------------------ state
VARIABLES
    heap,         \* address -> CoreDBState, the live snapshots
    dbState,      \* CompactorState.dbState, an address
    compactions,  \* CompactorState.compactions, destination -> Compaction
    held,         \* the addresses readers hold
    ret,          \* what the control loop got back from its last call: the
                  \* call's name, what it was about (a destination, an
                  \* output run's id, a writerState), the line it left at
                  \* and its error;
                  \* "idle" once the loop has taken it and is about to call
    fatal,        \* the message of the failed assertion, or "none"
    finishedL0    \* history: the level-0 ids that finished compactions listed
                  \* as sources (recorded under SpecHistory only)


\* a scan of one sorted run
VARIABLES
    run,          \* the scanned run's sstList: files, each a sequence of pairs
    fromKey,      \* the start key of the scan, absent for a full scan
    iter,         \* the SortedRunIterator
    yielded,      \* history: the pairs Next has returned so far
    nextRet,      \* what the last Next returned: a pair or absent, and the error
    noneCalls     \* history: how many calls of Next returned absent

\* a call taken one store at a time, and a goroutine that reads c.dbState
VARIABLES
    call,         \* the refreshDBState or finishCompaction in progress: the cell
                  \* merged, the snapshot the call started from, the one it
                  \* builds, and the stores of the call not yet in memory
    reader        \* the reading goroutine: the pointer it loaded from
                  \* c.dbState, the fields it has read through it so far
                  \* and those it has yet to read

compactorVars == << heap, dbState, compactions, held, ret, fatal >>

stepVars == << call, reader >>

iterVars == << run, fromKey, iter, yielded, nextRet, noneCalls >>

vars == << heap, dbState, compactions, held, ret, fatal, finishedL0,
           run, fromKey, iter, yielded, nextRet, noneCalls, call, reader >>

Return(op, id, line, err) == [op |-> op, id |-> id, line |-> line, err |-> err]

Idle == Return("idle", None, 0, "nil")

\* the serialized control loop is between two calls
Ready == fatal = "none" /\ ret = Idle

CoreDBStateInit ==
    [l0 |-> << >>,
     l0LastCompacted |-> None,
     compacted |-> << >>,
     lastCompactedWalSSTID |-> 0,
     nextWalSstID |-> 1]

\* newCompactorState over a freshly opened database
CompactorInit ==
    /\ heap = [a \in {1} |-> CoreDBStateInit]
    /\ dbState = 1
    /\ compactions = << >>
    /\ held = {}
    /\ ret = Return("newCompactorState", None, 109, "nil")
    /\ fatal = "none"
    /\ finishedL0 = {}

NotCalled == [kv |-> None, err |-> "not called"]

\* no scan is set up
NoScan ==
    /\ run = << >>
    /\ fromKey = None
    /\ iter = [sstList |-> << >>, currentKVIter |-> None]
    /\ yielded = << >>
    /\ nextRet = NotCalled
    /\ noneCalls = 0

\* no call is in progress
NoCall ==
    [op |-> "none", arg |-> None, merged |-> 0,
     old |-> CoreDBStateInit, new |-> CoreDBStateInit, pending |-> {}]

\* the goroutine is not reading
NoReader ==
    [pc |-> "idle", ptr |-> 0, seen |-> CoreDBStateInit, toRead |-> << >>, allowed |-> {}]

NoSteps == call = NoCall /\ reader = NoReader

Init == CompactorInit /\ NoScan /\ NoSteps

\* the total number of sources listed by the in-flight compactions
RECURSIVE pendingSources(_, _)
pendingSources(cs, ds) ==
    IF ds = {} THEN 0
    ELSE LET d == CHOOSE x \in ds : TRUE
         IN Len(cs[d].sources) + pendingSources(cs, ds \ {d})

\* ------------------------------------------------------------------ submit
\* oneOfTheSourceSRMatchesDestination without the test of src.typ
oneOfTheSourceMatchesDestination(compaction) ==
    \E i \in 1..Len(compaction.sources) :
        LET src == compaction.sources[i]
            srcVal == IF IsPresent(Atoi(src.value)) THEN Get(Atoi(src.value)) ELSE 0
        IN Uint32(srcVal) = compaction.destination

oneOfTheSourceSRMatchesDestination(compaction) ==
    \E i \in 1..Len(compaction.sources) :
        LET src == compaction.sources[i]
            srcVal == IF IsPresent(Atoi(src.value)) THEN Get(Atoi(src.value)) ELSE 0
        IN src.typ = SortedRunID /\ Uint32(srcVal) = compaction.destination

\* _, ok := c.compactions[compaction.destination], without the entry
ongoing_never(destination) == FALSE

\* _, ok := c.compactions[compaction.destination]
ongoing(destination) == destination \in DOMAIN compactions

\* the return of submitCompaction without the loop over compacted
submitReturn_noOverwriteTest(compaction) ==
    IF ongoing(compaction.destination) THEN 119 ELSE 134

\* the return of submitCompaction: the line it returns at
submitReturn(compaction) ==
    IF ongoing(compaction.destination) THEN 119
    ELSE IF /\ \E i \in 1..Len(heap[dbState].compacted) :
                  heap[dbState].compacted[i].id = compaction.destination
            /\ ~oneOfTheSourceSRMatchesDestination(compaction)
    THEN 126
    ELSE 134

\* the planner keeps the in-flight work within the bounds of the model
WithinBounds(compaction) ==
    submitReturn(compaction) = 134 =>
        /\ Cardinality(DOMAIN compactions) < MaxInFlight
        /\ pendingSources(compactions, DOMAIN compactions) + Len(compaction.sources)
             <= MaxPending

submitCompaction(compaction) ==
    /\ Ready
    /\ WithinBounds(compaction)
    /\ LET line == submitReturn(compaction)
       IN IF line = 134
          THEN /\ compactions' =
                    [d \in DOMAIN compactions \cup {compaction.destination} |->
                        IF d = compaction.destination THEN compaction ELSE compactions[d]]
               /\ ret' = Return("submitCompaction", Some(compaction.destination), 134, "nil")
          ELSE /\ compactions' = compactions
               /\ ret' = Return("submitCompaction", Some(compaction.destination), line, ErrInvalidCompaction)
    /\ UNCHANGED << heap, dbState, held, fatal >>

\* ------------------------------------------------------------------ publish
\* the cells that stay reachable once the CompactorState points at p
Reachable(p) == held \cup {p}

\* publish that writes the fields into the cell c.dbState points at
publish_inPlace(snapshot) ==
    /\ heap' = [heap EXCEPT ![dbState] = snapshot]
    /\ dbState' = dbState

\* merged := c.dbState.clone(); ...; c.dbState = merged: the clone is a new
\* cell, filled in and then stored in c.dbState; the old cell is left as it
\* was. Addresses are named up to the renaming of unreachable cells: the new
\* cell takes the lowest address that no reader holds, which is the old cell's
\* only when that cell becomes garbage with this assignment.
publish(snapshot) ==
    LET p == CHOOSE a \in Addrs \ held : \A b \in Addrs \ held : a <= b
    IN /\ heap' = [a \in Reachable(p) |-> IF a = p THEN snapshot ELSE heap[a]]
       /\ dbState' = p

\* CoreDBState.clone: a copy with the same fields
clone(s) ==
    [l0 |-> s.l0,
     l0LastCompacted |-> s.l0LastCompacted,
     compacted |-> s.compacted,
     lastCompactedWalSSTID |-> s.lastCompactedWalSSTID,
     nextWalSstID |-> s.nextWalSstID]

\* ------------------------------------------------------------------ refresh
\* the loop of refreshDBState with continue for break
RECURSIVE mergeL0s_continue(_, _, _, _)
mergeL0s_continue(writerL0, lastCompactedL0, i, mergedL0s) ==
    IF i > Len(writerL0) THEN [ok |-> TRUE, l0 |-> mergedL0s]
    ELSE IF writerL0[i].id.typ # "Compacted" THEN [ok |-> FALSE, l0 |-> mergedL0s]
    ELSE IF IsPresent(lastCompactedL0) /\
            Get(compactedID(writerL0[i].id)) = Get(lastCompactedL0)
    THEN mergeL0s_continue(writerL0, lastCompactedL0, i + 1, mergedL0s)
    ELSE mergeL0s_continue(writerL0, lastCompactedL0, i + 1, Append(mergedL0s, writerL0[i]))

\* the loop of refreshDBState from position i on, with mergedL0s so far;
\* ok is FALSE when the SSTableID type assertion fails
RECURSIVE mergeL0s(_, _, _, _)
mergeL0s(writerL0, lastCompactedL0, i, mergedL0s) ==
    IF i > Len(writerL0) THEN [ok |-> TRUE, l0 |-> mergedL0s]
    ELSE IF writerL0[i].id.typ # "Compacted" THEN [ok |-> FALSE, l0 |-> mergedL0s]
    ELSE IF IsPresent(lastCompactedL0) /\
            Get(compactedID(writerL0[i].id)) = Get(lastCompactedL0)
    THEN [ok |-> TRUE, l0 |-> mergedL0s]
    ELSE mergeL0s(writerL0, lastCompactedL0, i + 1, Append(mergedL0s, writerL0[i]))

\* merged, had it been cloned from writerState
merged_ofWriterState(s, writerState, mergedL0s) ==
    [clone(writerState) EXCEPT !.l0 = mergedL0s]

\* merged := c.dbState.clone() with l0 and the two counters assigned
merged(s, writerState, mergedL0s) ==
    [clone(s) EXCEPT
        !.l0 = mergedL0s,
        !.lastCompactedWalSSTID = writerState.lastCompactedWalSSTID,
        !.nextWalSstID = writerState.nextWalSstID]

refreshDBState(writerState) ==
    /\ Ready
    /\ LET cur == heap[dbState]
           m == mergeL0s(writerState.l0, cur.l0LastCompacted, 1, << >>)
       IN IF ~m.ok
          THEN /\ fatal' = "unexpected SSTableID type"
               /\ ret' = Return("refreshDBState", Some(writerState), 155, "nil")
               /\ UNCHANGED << heap, dbState >>
          ELSE /\ publish(merged(cur, writerState, m.l0))
               /\ ret' = Return("refreshDBState", Some(writerState), 170, "nil")
               /\ fatal' = fatal
    /\ UNCHANGED << compactions, held >>

\* ------------------------------------------------------------------ finish
\* the keys of compactionL0s
compactionL0s(compaction) ==
    {Get(sstID(compaction.sources[i])) :
        i \in {j \in 1..Len(compaction.sources) : IsPresent(sstID(compaction.sources[j]))}}

\* the keys of compactionSRs, had the loop over the sources not filled it
compactionSRs_destinationOnly(compaction) == {compaction.destination}

\* the keys of compactionSRs
compactionSRs(compaction) ==
    {Get(sortedRunID(compaction.sources[i])) :
        i \in {j \in 1..Len(compaction.sources) :
                 /\ IsAbsent(sstID(compaction.sources[j]))
                 /\ IsPresent(sortedRunID(compaction.sources[j]))}}
    \cup {compaction.destination}

\* the level-0 loop with the test of ok inverted
RECURSIVE filterL0_keepsConsumed(_, _, _, _)
filterL0_keepsConsumed(l0, consumed, i, newL0) ==
    IF i > Len(l0) THEN [ok |-> TRUE, l0 |-> newL0]
    ELSE IF IsAbsent(compactedID(l0[i].id)) THEN [ok |-> FALSE, l0 |-> newL0]
    ELSE filterL0_keepsConsumed(l0, consumed, i + 1,
                  IF Get(compactedID(l0[i].id)) \in consumed
                  THEN Append(newL0, l0[i]) ELSE newL0)

\* the level-0 loop from position i on; ok is FALSE when the assertion fails
RECURSIVE filterL0(_, _, _, _)
filterL0(l0, consumed, i, newL0) ==
    IF i > Len(l0) THEN [ok |-> TRUE, l0 |-> newL0]
    ELSE IF IsAbsent(compactedID(l0[i].id)) THEN [ok |-> FALSE, l0 |-> newL0]
    ELSE filterL0(l0, consumed, i + 1,
                  IF Get(compactedID(l0[i].id)) \in consumed
                  THEN newL0 ELSE Append(newL0, l0[i]))

\* the compacted loop from position i on, then the append after it
RECURSIVE rebuildCompacted(_, _, _, _, _, _)
rebuildCompacted(compacted, consumed, outputSR, i, inserted, newCompacted) ==
    IF i > Len(compacted)
    THEN IF ~inserted THEN Append(newCompacted, outputSR) ELSE newCompacted
    ELSE LET sr == compacted[i]
             ins == ~inserted /\ outputSR.id >= sr.id
             withOut == IF ins THEN Append(newCompacted, outputSR) ELSE newCompacted
             withSR == IF sr.id \in consumed THEN withOut ELSE Append(withOut, sr)
         IN rebuildCompacted(compacted, consumed, outputSR, i + 1, inserted \/ ins, withSR)

\* assertCompactedSRsInIDOrder: TRUE when no assertion of the loop fails
RECURSIVE compactedSRsInIDOrder(_, _, _)
compactedSRsInIDOrder(compacted, i, lastSortedRunID) ==
    IF i > Len(compacted) THEN TRUE
    ELSE IF ~(compacted[i].id < lastSortedRunID) THEN FALSE
    ELSE compactedSRsInIDOrder(compacted, i + 1, compacted[i].id)

assertCompactedSRsInIDOrder(compacted) == compactedSRsInIDOrder(compacted, 1, MaxUint32)

\* the watermark, had the first file among the sources been taken for it
newL0LastCompacted_firstFile(compaction, old) ==
    LET fileAt == {j \in 1..Len(compaction.sources) : IsPresent(sstID(compaction.sources[j]))}
    IN IF fileAt = {} THEN old
       ELSE Some(Get(sstID(compaction.sources[CHOOSE j \in fileAt : \A k \in fileAt : j <= k])))

\* the watermark after the first source is looked at
newL0LastCompacted(compaction, old) ==
    IF IsPresent(sstID(compaction.sources[1]))
    THEN Some(Get(sstID(compaction.sources[1])))
    ELSE old

\* the zero value a Go map read yields for a missing key
zeroCompaction == [status |-> 0, sources |-> << >>, destination |-> 0]

\* compaction, ok := c.compactions[id], with ok not looked at
lookup_unchecked(id) ==
    [ok |-> TRUE,
     compaction |-> IF id \in DOMAIN compactions THEN compactions[id] ELSE zeroCompaction]

\* compaction, ok := c.compactions[id]
lookup(id) ==
    IF id \in DOMAIN compactions
    THEN [ok |-> TRUE, compaction |-> compactions[id]]
    ELSE [ok |-> FALSE, compaction |-> zeroCompaction]

\* dbState := c.dbState.clone() with the watermark, l0 and compacted assigned
finished(compaction, outputSR) ==
    [clone(heap[dbState]) EXCEPT
        !.l0LastCompacted = newL0LastCompacted(compaction, @),
        !.l0 = filterL0(@, compactionL0s(compaction), 1, << >>).l0,
        !.compacted = rebuildCompacted(@, compactionSRs(compaction), outputSR, 1, FALSE, << >>)]

\* delete(m, key) that leaves the entry in the map
delete_nothing(m, key) == m

\* delete(m, key)
delete(m, key) == [d \in DOMAIN m \ {key} |-> m[d]]

finishCompaction(outputSR) ==
    /\ Ready
    /\ IF ~lookup(outputSR.id).ok
       THEN /\ ret' = Return("finishCompaction", Some(outputSR.id), 177, "nil")
            /\ UNCHANGED << heap, dbState, compactions, fatal >>
       ELSE LET compaction == lookup(outputSR.id).compaction
                cur == clone(heap[dbState])
                f == filterL0(cur.l0, compactionL0s(compaction), 1, << >>)
                newCompacted == rebuildCompacted(cur.compacted, compactionSRs(compaction),
                                                 outputSR, 1, FALSE, << >>)
                stop(line, msg) ==
                    /\ fatal' = msg
                    /\ ret' = Return("finishCompaction", Some(outputSR.id), line, "nil")
                    /\ UNCHANGED << heap, dbState, compactions >>
            IN IF ~f.ok THEN stop(197, "Expected compactedID not present")
               ELSE IF ~assertCompactedSRsInIDOrder(newCompacted)
               THEN stop(240, "compacted sortedRuns not in decreasing order")
               ELSE IF ~(Len(compaction.sources) > 0)
               THEN stop(222, "compaction should not be empty")
               ELSE /\ publish(finished(compaction, outputSR))
                    /\ compactions' = delete(compactions, outputSR.id)
                    /\ ret' = Return("finishCompaction", Some(outputSR.id), 233, "nil")
                    /\ fatal' = fatal
    /\ UNCHANGED held

\* ------------------------------------------------------------------ system
\* the control loop takes the result of a call and goes on to the next one
controlLoop ==
    /\ fatal = "none"
    /\ ret # Idle
    /\ ret' = Idle
    /\ UNCHANGED << heap, dbState, compactions, held, fatal >>

Next ==
    \/ controlLoop /\ UNCHANGED << finishedL0, iterVars, stepVars >>
    \/ \E compaction \in Compactions :
           submitCompaction(compaction) /\ UNCHANGED << finishedL0, iterVars, stepVars >>
    \/ \E writerState \in WriterStates :
           refreshDBState(writerState) /\ UNCHANGED << finishedL0, iterVars, stepVars >>
    \/ \E outputSR \in OutputRuns :
           finishCompaction(outputSR) /\ UNCHANGED << finishedL0, iterVars, stepVars >>

Spec == Init /\ [][Next]_vars

\* --------------------------------------------------- a planner over level 0
\* the level-0 ids of a snapshot, in its order
L0Ids(s) == [i \in 1..Len(s.l0) |-> Get(compactedID(s.l0[i].id))]

\* the level-0 ids the in-flight compactions list
InFlightL0 == UNION {compactionL0s(compactions[d]) : d \in DOMAIN compactions}

\* the planner's convention: the sources are level-0 files of the current
\* snapshot, newest first, none of them already a source of an in-flight job
PlannedFromL0(compaction) ==
    /\ compaction.sources # << >>
    /\ \A i \in 1..Len(compaction.sources) :
           /\ compaction.sources[i].typ = SSTID
           /\ Get(sstID(compaction.sources[i])) \in Range(L0Ids(heap[dbState]))
           /\ Get(sstID(compaction.sources[i])) \notin InFlightL0
    /\ \A i \in 1..(Len(compaction.sources) - 1) :
           Get(sstID(compaction.sources[i])) > Get(sstID(compaction.sources[i + 1]))

\* a writer that has not dropped a level-0 file yet: its l0 still lists the
\* files the compactor sees and the files finished compactions consumed, and
\* the files it has added since are newer than those
WriterStillLists(writerState) ==
    LET known == Range(L0Ids(heap[dbState])) \cup finishedL0
    IN /\ known \subseteq Range(L0Ids(writerState))
       /\ \A f \in Range(L0Ids(writerState)) \ known : \A g \in known : f > g

\* finishCompaction, with the level-0 sources of a committed compaction recorded
finishAndRecord(outputSR) ==
    /\ finishCompaction(outputSR)
    /\ finishedL0' =
         IF ret'.line = 233
         THEN finishedL0 \cup compactionL0s(compactions[outputSR.id])
         ELSE finishedL0
    /\ UNCHANGED << iterVars, stepVars >>

NextHistory ==
    \/ controlLoop /\ UNCHANGED << finishedL0, iterVars, stepVars >>
    \/ \E compaction \in Compactions :
           /\ PlannedFromL0(compaction)
           /\ submitCompaction(compaction)
           /\ UNCHANGED << finishedL0, iterVars, stepVars >>
    \/ \E writerState \in WriterStates :
           /\ WriterStillLists(writerState)
           /\ refreshDBState(writerState)
           /\ UNCHANGED << finishedL0, iterVars, stepVars >>
    \/ \E outputSR \in OutputRuns : finishAndRecord(outputSR)

\* the calls of Spec under the planner's convention, with the history recorded
SpecHistory == Init /\ [][NextHistory]_vars

\* ------------------------------------------------------------------ readers
\* a reader loads CompactorState.dbState and keeps the reference
readerAcquire ==
    /\ dbState \notin held
    /\ Cardinality(held) < MaxReaders
    /\ held' = held \cup {dbState}
    /\ UNCHANGED << heap, dbState, compactions, ret, fatal >>

\* a reader drops its reference; a cell nothing refers to is reclaimed
readerRelease(a) ==
    /\ a \in held
    /\ held' = held \ {a}
    /\ heap' = [b \in (held \ {a}) \cup {dbState} |-> heap[b]]
    /\ UNCHANGED << dbState, compactions, ret, fatal >>

NextSnapshot ==
    \/ controlLoop /\ UNCHANGED << finishedL0, iterVars, stepVars >>
    \/ \E compaction \in Compactions :
           /\ PlannedFromL0(compaction)
           /\ submitCompaction(compaction)
           /\ UNCHANGED << finishedL0, iterVars, stepVars >>
    \/ \E writerState \in WriterStates :
           refreshDBState(writerState) /\ UNCHANGED << finishedL0, iterVars, stepVars >>
    \/ \E outputSR \in OutputRuns :
           finishCompaction(outputSR) /\ UNCHANGED << finishedL0, iterVars, stepVars >>
    \/ readerAcquire /\ UNCHANGED << finishedL0, iterVars, stepVars >>
    \/ \E a \in Addrs : readerRelease(a) /\ UNCHANGED << finishedL0, iterVars, stepVars >>

\* the calls under the planner's convention, with readers of the snapshots
SpecSnapshot == Init /\ [][NextSnapshot]_vars

\* ------------------------------------------- a reader racing with a call
\* The stores of a call and the loads of a goroutine that reads c.dbState
\* while the call runs. CompactorState has no lock and c.dbState is a plain
\* field, so these loads and the stores of lines 166-169 and 227-232 are a
\* data race: no happens-before edge orders the stores for the reader, and
\* it can see them in any order. The goroutine reads one snapshot per call.

\* the line of finishCompaction(outputSR) that ends the call
finishLine(outputSR) ==
    IF ~lookup(outputSR.id).ok THEN 177
    ELSE LET compaction == lookup(outputSR.id).compaction
             new == finished(compaction, outputSR)
         IN IF ~filterL0(heap[dbState].l0, {}, 1, << >>).ok THEN 197
            ELSE IF ~assertCompactedSRsInIDOrder(new.compacted) THEN 240
            ELSE IF ~(Len(compaction.sources) > 0) THEN 222
            ELSE 233

\* the cells something refers to
Live(c, r) ==
    held \cup {dbState}
         \cup (IF c.op = "none" THEN {} ELSE {c.merged})
         \cup (IF r.pc = "idle" THEN {} ELSE {r.ptr})

\* the cell a clone() is allocated at
NewCell == CHOOSE a \in Addrs \ Live(call, reader) : \A b \in Addrs \ Live(call, reader) : a <= b

\* lines 151-165: the loop over writerState.l0 and merged := c.dbState.clone();
\* the stores of lines 166-169 are still to come
refreshClone(writerState) ==
    /\ Ready
    /\ call = NoCall
    /\ reader = NoReader
    /\ LET m == mergeL0s(writerState.l0, heap[dbState].l0LastCompacted, 1, << >>)
       IN /\ m.ok
          /\ call' = [op |-> "refreshDBState", arg |-> Some(writerState),
                      merged |-> NewCell,
                      old |-> heap[dbState],
                      new |-> merged(heap[dbState], writerState, m.l0),
                      pending |-> {"l0", "lastCompactedWalSSTID", "nextWalSstID", "dbState"}]
          /\ heap' = [a \in DOMAIN heap \cup {NewCell} |->
                         IF a = NewCell THEN clone(heap[dbState]) ELSE heap[a]]
    /\ UNCHANGED << dbState, compactions, held, ret, fatal, reader >>

\* lines 175-222 of a finishCompaction that passes its assertions: the loops
\* and dbState := c.dbState.clone(); the stores of lines 227-232 are still to
\* come
finishClone(outputSR) ==
    /\ Ready
    /\ call = NoCall
    /\ reader = NoReader
    /\ finishLine(outputSR) = 233
    /\ LET compaction == lookup(outputSR.id).compaction
       IN call' = [op |-> "finishCompaction", arg |-> Some(outputSR.id),
                   merged |-> NewCell,
                   old |-> heap[dbState],
                   new |-> finished(compaction, outputSR),
                   pending |-> {"l0", "compacted", "dbState"} \cup
                               (IF IsPresent(sstID(compaction.sources[1]))
                                THEN {"l0LastCompacted"} ELSE {})]
    /\ heap' = [a \in DOMAIN heap \cup {NewCell} |->
                   IF a = NewCell THEN clone(heap[dbState]) ELSE heap[a]]
    /\ UNCHANGED << dbState, compactions, held, ret, fatal, reader >>

\* one store of the call reaches memory: a field of merged, or c.dbState
store(f) ==
    /\ f \in call.pending
    /\ call' = [call EXCEPT !.pending = @ \ {f}]
    /\ IF f = "dbState"
       THEN dbState' = call.merged /\ heap' = heap
       ELSE /\ heap' = [heap EXCEPT ![call.merged] = [@ EXCEPT ![f] = call.new[f]]]
            /\ dbState' = dbState
    /\ UNCHANGED << compactions, held, ret, fatal, reader >>

\* the call returns; the snapshot it replaced is garbage unless someone reads it
callReturn ==
    /\ call # NoCall
    /\ call.pending = {}
    /\ call' = NoCall
    /\ IF call.op = "finishCompaction"
       THEN /\ compactions' = delete(compactions, Get(call.arg))
            /\ ret' = Return(call.op, call.arg, 233, "nil")
       ELSE /\ compactions' = compactions
            /\ ret' = Return(call.op, call.arg, 170, "nil")
    /\ heap' = [a \in Live(NoCall, reader) |-> heap[a]]
    /\ UNCHANGED << dbState, held, fatal, reader >>

\* the fields of CoreDBState, in the order the goroutine reads them
Fields == << "l0", "l0LastCompacted", "compacted", "lastCompactedWalSSTID", "nextWalSstID" >>

\* the goroutine loads c.dbState while a call runs; what it may go on to see
\* is the snapshot of before the call or the one of after it
readerLoad ==
    /\ reader = NoReader
    /\ call # NoCall
    /\ reader' = [pc |-> "reading", ptr |-> dbState, seen |-> CoreDBStateInit,
                  toRead |-> Fields,
                  allowed |-> {call.old, call.new}]
    /\ UNCHANGED << compactorVars, call >>

\* the goroutine reads the next field through its pointer
readerRead ==
    /\ reader.pc = "reading"
    /\ reader.toRead # << >>
    /\ reader' = [reader EXCEPT
                     !.seen = [@ EXCEPT ![Head(reader.toRead)] =
                                  heap[reader.ptr][Head(reader.toRead)]],
                     !.toRead = Tail(@)]
    /\ UNCHANGED << compactorVars, call >>

\* the goroutine drops its pointer
readerDone ==
    /\ reader.pc = "reading"
    /\ reader.toRead = << >>
    /\ reader' = NoReader
    /\ heap' = [a \in Live(call, NoReader) |-> heap[a]]
    /\ UNCHANGED << dbState, compactions, held, ret, fatal, call >>

\* the writer of the race: its l0 alone differs from a new database's
RaceWriterStates ==
    {w \in WriterStates : IsAbsent(w.l0LastCompacted) /\ w.compacted = << >>}

NextRace ==
    \/ controlLoop /\ call = NoCall /\ UNCHANGED << finishedL0, iterVars, stepVars >>
    \/ \E compaction \in Compactions :
           /\ call = NoCall
           /\ PlannedFromL0(compaction)
           /\ submitCompaction(compaction)
           /\ UNCHANGED << finishedL0, iterVars, stepVars >>
    \/ \E writerState \in RaceWriterStates :
           refreshClone(writerState) /\ UNCHANGED << finishedL0, iterVars >>
    \/ \E outputSR \in OutputRuns :
           finishClone(outputSR) /\ UNCHANGED << finishedL0, iterVars >>
    \/ \E f \in {"l0", "l0LastCompacted", "compacted", "lastCompactedWalSSTID",
                 "nextWalSstID", "dbState"} :
           store(f) /\ UNCHANGED << finishedL0, iterVars >>
    \/ callReturn /\ UNCHANGED << finishedL0, iterVars >>
    \/ readerLoad /\ UNCHANGED << finishedL0, iterVars >>
    \/ readerRead /\ UNCHANGED << finishedL0, iterVars >>
    \/ readerDone /\ UNCHANGED << finishedL0, iterVars >>

SpecRace == Init /\ [][NextRace]_vars

\* ------------------------------------------------------------------ scans
Keys == 1..MaxKey

\* the pair a file stores under a key
KV(k) == [key |-> k, value |-> << "value", k >>]

StrictlyIncreasing(s) == \A i \in 1..(Len(s) - 1) : s[i] < s[i + 1]

\* the files a table writer produces: pairs in ascending key order, not empty
SSTs ==
    {[i \in 1..Len(ks) |-> KV(ks[i])] :
        ks \in {t \in SeqsUpTo(Keys, MaxKey) : t # << >> /\ StrictlyIncreasing(t)}}

RECURSIVE Flatten(_)
Flatten(files) ==
    IF files = << >> THEN << >> ELSE Head(files) \o Flatten(Tail(files))

KeysOf(pairs) == [i \in 1..Len(pairs) |-> pairs[i].key]

\* the sstLists of sorted runs: files with ascending, non-overlapping ranges
Runs == {r \in SeqsUpTo(SSTs, MaxRunFiles) : StrictlyIncreasing(KeysOf(Flatten(r)))}

\* the start keys of a scan, some below and some above every key of a run
SeekKeys == 0..(MaxKey + 1)

\* the table store's iterator over one file: the pairs not yet read
newSSTIterator(sst) == sst

\* the iterator over one file seeked to key: the pairs from the first key >= key
RECURSIVE newSSTIteratorFromKey(_, _)
newSSTIteratorFromKey(sst, key) ==
    IF sst = << >> \/ Head(sst).key >= key THEN sst
    ELSE newSSTIteratorFromKey(Tail(sst), key)

\* the iterator over sstList: the first file is opened, seeked when from is present
newSortedRunIter(sstList, from) ==
    IF sstList = << >> THEN [sstList |-> << >>, currentKVIter |-> None]
    ELSE [sstList |-> Tail(sstList),
          currentKVIter |->
              Some(IF IsPresent(from)
                   THEN newSSTIteratorFromKey(Head(sstList), Get(from))
                   ELSE newSSTIterator(Head(sstList)))]

newSortedRunIterator(sstList) == newSortedRunIter(sstList, None)

\* the files from the first one whose last key is not below the key, with
\* "not below" misread as "above"
RECURSIVE sstListFromKey_skipsEqual(_, _)
sstListFromKey_skipsEqual(sstList, key) ==
    IF sstList = << >> THEN << >>
    ELSE IF Head(sstList)[Len(Head(sstList))].key <= key
    THEN sstListFromKey_skipsEqual(Tail(sstList), key)
    ELSE sstList

\* the files from the first one whose range can hold keys >= key: the files
\* whose last key is below the key are skipped
RECURSIVE sstListFromKey(_, _)
sstListFromKey(sstList, key) ==
    IF sstList = << >> THEN << >>
    ELSE IF Head(sstList)[Len(Head(sstList))].key < key
    THEN sstListFromKey(Tail(sstList), key)
    ELSE sstList

newSortedRunIteratorFromKey(key, sstList) ==
    newSortedRunIter(sstListFromKey(sstList, key), Some(key))

\* NextEntry that ends the scan at the end of the current file
RECURSIVE NextEntry_endsAtFileEnd(_)
NextEntry_endsAtFileEnd(it) ==
    IF IsAbsent(it.currentKVIter) THEN [kv |-> None, iter |-> it]
    ELSE IF Get(it.currentKVIter) # << >>
    THEN [kv |-> Some(Head(Get(it.currentKVIter))),
          iter |-> [it EXCEPT !.currentKVIter = Some(Tail(Get(it.currentKVIter)))]]
    ELSE [kv |-> None, iter |-> [it EXCEPT !.currentKVIter = None]]

\* NextEntry that opens the run again once the last file is read
RECURSIVE NextEntry_resumes(_)
NextEntry_resumes(it) ==
    IF IsAbsent(it.currentKVIter)
    THEN [kv |-> None, iter |-> newSortedRunIterator(run)]
    ELSE IF Get(it.currentKVIter) # << >>
    THEN [kv |-> Some(Head(Get(it.currentKVIter))),
          iter |-> [it EXCEPT !.currentKVIter = Some(Tail(Get(it.currentKVIter)))]]
    ELSE IF it.sstList = << >>
    THEN NextEntry_resumes([it EXCEPT !.currentKVIter = None])
    ELSE NextEntry_resumes([sstList |-> Tail(it.sstList),
                            currentKVIter |-> Some(newSSTIterator(Head(it.sstList)))])

\* SortedRunIterator.NextEntry: the next pair of the current file; at its end
\* the next file is opened, and after the last file the iterator has no
\* current file and stays so
RECURSIVE NextEntry(_)
NextEntry(it) ==
    IF IsAbsent(it.currentKVIter) THEN [kv |-> None, iter |-> it]
    ELSE IF Get(it.currentKVIter) # << >>
    THEN [kv |-> Some(Head(Get(it.currentKVIter))),
          iter |-> [it EXCEPT !.currentKVIter = Some(Tail(Get(it.currentKVIter)))]]
    ELSE IF it.sstList = << >>
    THEN NextEntry([it EXCEPT !.currentKVIter = None])
    ELSE NextEntry([sstList |-> Tail(it.sstList),
                    currentKVIter |-> Some(newSSTIterator(Head(it.sstList)))])

\* SortedRunIterator.Next
IterNext ==
    /\ noneCalls < MaxNoneCalls
    /\ LET n == NextEntry(iter)
       IN /\ iter' = n.iter
          /\ nextRet' = [kv |-> n.kv, err |-> "nil"]
          /\ yielded' = IF IsPresent(n.kv) THEN Append(yielded, Get(n.kv)) ELSE yielded
          /\ noneCalls' = IF IsPresent(n.kv) THEN noneCalls ELSE noneCalls + 1
    /\ UNCHANGED << run, fromKey, compactorVars, finishedL0, stepVars >>

\* a scan set up by newSortedRunIterator or newSortedRunIteratorFromKey
InitScan ==
    /\ CompactorInit
    /\ NoSteps
    /\ run \in Runs
    /\ fromKey \in {None} \cup {Some(k) : k \in SeekKeys}
    /\ iter = IF IsPresent(fromKey)
              THEN newSortedRunIteratorFromKey(Get(fromKey), run)
              ELSE newSortedRunIterator(run)
    /\ yielded = << >>
    /\ nextRet = NotCalled
    /\ noneCalls = 0

NextScan == IterNext

SpecScan == InitScan /\ [][NextScan]_vars

\* ------------------------------------------------------------------ claims
\* the snapshot the CompactorState points at
cur == heap[dbState]

IdsOf(runs) == [i \in 1..Len(runs) |-> runs[i].id]

StrictlyDecreasing(s) == \A i \in 1..(Len(s) - 1) : s[i] > s[i + 1]

OrderPanic == "compacted sortedRuns not in decreasing order"

\* C1: compacted is strictly decreasing by id after any sequence of calls,
\* and the ordering assertion of finishCompaction never fails.
C1_CompactedDecreasingAndNoOrderPanic ==
    /\ StrictlyDecreasing(IdsOf(cur.compacted))
    /\ fatal # OrderPanic

\* the part of C1 about the list alone
C1_CompactedDecreasing == StrictlyDecreasing(IdsOf(cur.compacted))

\* the destination is the id of a run of compacted that no sorted-run-type
\* source of the compaction names
Overwrites(compaction) ==
    /\ compaction.destination \in Range(IdsOf(cur.compacted))
    /\ \A i \in 1..Len(compaction.sources) :
           sortedRunID(compaction.sources[i]) # Some(compaction.destination)

\* C2: for a destination with no in-flight compaction, submitCompaction
\* returns InvalidCompaction exactly when the destination is the id of a run
\* of compacted that no sorted-run-type source names; otherwise it accepts
\* and records the compaction under its destination.
C2_SubmitRejectsExactlyUnlistedOverwrite ==
    /\ Ready =>
         \A compaction \in Compactions :
             compaction.destination \notin DOMAIN compactions =>
                 (submitReturn(compaction) # 134 <=> Overwrites(compaction))
    /\ ret.op = "submitCompaction" =>
         IF ret.line = 134
         THEN /\ ret.err = "nil"
              /\ Get(ret.id) \in DOMAIN compactions
              /\ compactions[Get(ret.id)].destination = Get(ret.id)
              /\ ~Overwrites(compactions[Get(ret.id)])
         ELSE ret.err = ErrInvalidCompaction

\* a submission was rejected although its destination had no in-flight compaction
C2_Witness ==
    /\ ret.op = "submitCompaction"
    /\ ret.err = ErrInvalidCompaction
    /\ Get(ret.id) \notin DOMAIN compactions

\* C3: every entry of compactions is stored under its own destination, and
\* submitCompaction for a destination that already has an entry returns
\* InvalidCompaction and leaves the entries as they were.
C3_OneCompactionPerDestination ==
    [][/\ \A d \in DOMAIN compactions' : compactions'[d].destination = d
       /\ (ret'.op = "submitCompaction" /\ Get(ret'.id) \in DOMAIN compactions)
            => (ret'.err = ErrInvalidCompaction /\ compactions' = compactions)
    ]_vars

\* a submission for a destination with an in-flight compaction was rejected
\* while another destination had one too
C3_Witness ==
    /\ ret.op = "submitCompaction"
    /\ ret.err = ErrInvalidCompaction
    /\ Get(ret.id) \in DOMAIN compactions
    /\ Cardinality(DOMAIN compactions) = 2

\* C4: finishCompaction with an output run whose id has no entry in
\* compactions reports no error and leaves dbState and compactions unchanged.
C4_FinishUnknownIsNoOp ==
    [][(ret'.op = "finishCompaction" /\ Get(ret'.id) \notin DOMAIN compactions)
        => /\ ret'.err = "nil"
           /\ fatal' = "none"
           /\ dbState' = dbState
           /\ heap' = heap
           /\ compactions' = compactions
    ]_vars

\* finishCompaction returned for an id that a finished compaction had used
C4_Witness ==
    /\ ret.op = "finishCompaction"
    /\ ret.line = 177
    /\ Get(ret.id) \in Range(IdsOf(cur.compacted))
    /\ compactions # << >>

\* the position the output run is claimed to take among the surviving ids
RECURSIVE FirstSmaller(_, _, _)
FirstSmaller(s, id, i) ==
    IF i > Len(s) \/ s[i] < id THEN i ELSE FirstSmaller(s, id, i + 1)

\* C10: after finishCompaction for a known destination, the ids of compacted
\* are the previous ids without the sorted-run sources and the destination,
\* plus the output id; the surviving runs keep their order; the output run
\* sits before the first surviving run with a smaller id, or at the end.
C10_FinishRebuildsCompacted ==
    [][(/\ ret'.op = "finishCompaction"
        /\ Get(ret'.id) \in DOMAIN compactions
        /\ fatal' = "none")
        => LET compaction == compactions[Get(ret'.id)]
               out == Get(ret'.id)
               srcSRs == {Get(sortedRunID(compaction.sources[i])) :
                            i \in {j \in 1..Len(compaction.sources) :
                                     compaction.sources[j].typ = SortedRunID}}
               gone == srcSRs \cup {compaction.destination}
               keeps(id) == id \notin gone
               surviving == SelectSeq(IdsOf(cur.compacted), keeps)
               k == FirstSmaller(surviving, out, 1)
           IN /\ Range(IdsOf(cur'.compacted)) =
                   (Range(IdsOf(cur.compacted)) \ gone) \cup {out}
              /\ IdsOf(cur'.compacted) =
                   SubSeq(surviving, 1, k - 1) \o << out >>
                       \o SubSeq(surviving, k, Len(surviving))
    ]_vars

\* a finished compaction put its output between two surviving runs and
\* removed a run that was among its sources
C10_Witness ==
    /\ ret.op = "finishCompaction"
    /\ ret.line = 233
    /\ Len(cur.compacted) = 3
    /\ cur.compacted[2].id = Get(ret.id)

\* C6: once a compaction that consumed level-0 files has finished, no later
\* refreshDBState re-adds any of those files to dbState.l0.
C6_RefreshNeverReAddsConsumed ==
    ret.op = "refreshDBState" => finishedL0 \cap Range(L0Ids(cur)) = {}

IsPrefix(s, t) == Len(s) <= Len(t) /\ s = SubSeq(t, 1, Len(s))

\* Next has returned absent
AtEnd == nextRet.err = "nil" /\ IsAbsent(nextRet.kv)

\* C5: a snapshot a reader holds shows the same fields after every call: the
\* calls store a new snapshot in dbState and write to none that is held.
C5_HeldSnapshotsNeverChange ==
    [][/\ \A a \in held \cap held' : a \in DOMAIN heap' /\ heap'[a] = heap[a]
       /\ (ret = Idle /\ ret'.line \in {170, 233}) => dbState' \notin held
    ]_vars

\* a reader holds the snapshot of before a refreshDBState and a
\* finishCompaction that changed every field
C5_Witness ==
    /\ ret.op = "finishCompaction"
    /\ ret.line = 233
    /\ \E a \in held :
           /\ a # dbState
           /\ heap[a].l0 # cur.l0
           /\ heap[a].l0LastCompacted # cur.l0LastCompacted
           /\ heap[a].compacted # cur.compacted
           /\ heap[a].lastCompactedWalSSTID # cur.lastCompactedWalSSTID
           /\ heap[a].nextWalSstID # cur.nextWalSstID

\* C7: a full scan yields the pairs of file 0 in order, then those of file
\* 1, and so on, each once; the keys it yields are strictly increasing.
C7_FullScanYieldsTheFilesInOrder ==
    IsAbsent(fromKey) =>
        /\ IsPrefix(yielded, Flatten(run))
        /\ AtEnd => yielded = Flatten(run)
        /\ StrictlyIncreasing(KeysOf(yielded))

\* a full scan of three files of different sizes has reached the end
C7_Witness ==
    /\ IsAbsent(fromKey)
    /\ AtEnd
    /\ Len(run) = 3
    /\ Len(run[1]) = 2
    /\ Len(run[2]) = 1
    /\ Len(yielded) = 4

\* the pairs of a sequence whose key is at least k
RECURSIVE FromKey(_, _)
FromKey(pairs, k) ==
    IF pairs = << >> THEN << >>
    ELSE IF Head(pairs).key >= k THEN << Head(pairs) >> \o FromKey(Tail(pairs), k)
    ELSE FromKey(Tail(pairs), k)

\* C8: a scan from a start key yields the pairs of the full scan whose key
\* is at least the start key, in the same order: all of them for a key below
\* the run, none for a key above it.
C8_ScanFromKeyYieldsTheSuffix ==
    IsPresent(fromKey) =>
        /\ IsPrefix(yielded, FromKey(Flatten(run), Get(fromKey)))
        /\ AtEnd => yielded = FromKey(Flatten(run), Get(fromKey))

\* a scan from the last key of the first of two files has reached the end
C8_Witness ==
    /\ IsPresent(fromKey)
    /\ AtEnd
    /\ Len(run) = 2
    /\ Len(run[1]) = 2
    /\ run[1][2].key = Get(fromKey)
    /\ Len(yielded) = 3

\* C9: once Next has returned absent, every later Next returns absent and
\* yields nothing more; Next never reports an error.
C9_AbsentStaysAbsent ==
    [][/\ AtEnd => (AtEnd' /\ yielded' = yielded)
       /\ nextRet'.err \in {"nil", "not called"}
    ]_vars

\* Next has returned absent twice after a scan that yielded pairs
C9_Witness ==
    /\ noneCalls = 2
    /\ AtEnd
    /\ yielded # << >>

\* a step in which finishCompaction committed the compaction it found
FinishCommits ==
    /\ ret'.op = "finishCompaction"
    /\ Get(ret'.id) \in DOMAIN compactions
    /\ fatal' = "none"

\* the ids the file-type sources of a compaction name
FileSources(compaction) ==
    {Get(ULIDParse(compaction.sources[i].value)) :
        i \in {j \in 1..Len(compaction.sources) : compaction.sources[j].typ = SSTID}}

\* C11: finishCompaction for a known destination leaves in l0 the files that
\* are not file-type sources of the compaction, in their order, and no other.
C11_FinishRemovesTheSourceFiles ==
    [][FinishCommits =>
         LET consumed == FileSources(compactions[Get(ret'.id)])
             stays(h) == h.id.value \notin consumed
         IN cur'.l0 = SelectSeq(cur.l0, stays)
    ]_vars

\* a finishCompaction has committed; l0 keeps the older file, and the newer
\* one, which the watermark names, is gone from it
C11_Witness ==
    /\ ret.op = "finishCompaction"
    /\ ret.line = 233
    /\ Len(cur.l0) = 1
    /\ IsPresent(cur.l0LastCompacted)
    /\ Get(cur.l0LastCompacted) > cur.l0[1].id.value
    /\ IdsOf(cur.compacted) = << Get(ret.id) >>

\* C12: finishCompaction for a known destination sets the watermark to the
\* first source when that source is a file, and keeps it otherwise, also when
\* a later source is a file.
C12_WatermarkIsTheFirstSourceIfAFile ==
    [][FinishCommits =>
         LET first == compactions[Get(ret'.id)].sources[1]
         IN IF first.typ = SSTID
            THEN cur'.l0LastCompacted = ULIDParse(first.value)
            ELSE cur'.l0LastCompacted = cur.l0LastCompacted
    ]_vars

\* a finishCompaction has committed on a refreshed snapshot and there is
\* still no watermark: the first source was a sorted run
C12_Witness ==
    /\ ret.op = "finishCompaction"
    /\ ret.line = 233
    /\ cur.nextWalSstID > 1
    /\ cur.l0 = << >>
    /\ IsAbsent(cur.l0LastCompacted)
    /\ Len(cur.compacted) = 1

\* a step in which refreshDBState returned
RefreshReturns == ret'.op = "refreshDBState" /\ ret'.line = 170

\* the handles of l0 before the first one with the watermark's id
RECURSIVE PrefixBefore(_, _)
PrefixBefore(l0, watermark) ==
    IF l0 = << >> THEN << >>
    ELSE IF watermark = Some(Head(l0).id.value) THEN << >>
    ELSE << Head(l0) >> \o PrefixBefore(Tail(l0), watermark)

\* C13: after refreshDBState(writerState), l0 is the longest prefix of
\* writerState.l0 without the file the watermark named before the call: all
\* of writerState.l0 when there is no watermark or no such file.
C13_RefreshTakesThePrefixBeforeTheWatermark ==
    [][RefreshReturns =>
         LET writerState == Get(ret'.id)
             named == {i \in 1..Len(writerState.l0) :
                          cur.l0LastCompacted = Some(writerState.l0[i].id.value)}
         IN /\ cur'.l0 = PrefixBefore(writerState.l0, cur.l0LastCompacted)
            /\ named = {} => cur'.l0 = writerState.l0
            /\ \A i \in named : Len(cur'.l0) < i
            /\ named # {} => (Len(cur'.l0) + 1) \in named
    ]_vars

\* refreshDBState has returned; the watermark names the second file of the
\* writer's l0 and l0 is the first file alone
C13_Witness ==
    /\ ret.op = "refreshDBState"
    /\ ret.line = 170
    /\ Len(Get(ret.id).l0) = 2
    /\ cur.l0LastCompacted = Some(Get(ret.id).l0[2].id.value)
    /\ cur.l0 = << Get(ret.id).l0[1] >>

\* C14: refreshDBState changes l0 and the two counters, which become the
\* writer's; compacted, the watermark and the in-flight compactions stay as
\* they were, whatever the writer holds there.
C14_RefreshKeepsCompactedWatermarkAndCompactions ==
    [][RefreshReturns =>
         LET writerState == Get(ret'.id)
         IN /\ cur'.lastCompactedWalSSTID = writerState.lastCompactedWalSSTID
            /\ cur'.nextWalSstID = writerState.nextWalSstID
            /\ cur'.compacted = cur.compacted
            /\ cur'.l0LastCompacted = cur.l0LastCompacted
            /\ compactions' = compactions
    ]_vars

\* refreshDBState has returned; the writer's watermark and sorted runs are
\* not the compactor's, and a compaction is in flight
C14_Witness ==
    /\ ret.op = "refreshDBState"
    /\ ret.line = 170
    /\ IsPresent(Get(ret.id).l0LastCompacted)
    /\ IsPresent(cur.l0LastCompacted)
    /\ Get(ret.id).l0LastCompacted # cur.l0LastCompacted
    /\ Get(ret.id).compacted # << >>
    /\ cur.compacted # << >>
    /\ Get(ret.id).compacted # cur.compacted
    /\ compactions # << >>

\* C15: a finishCompaction that commits removes the entry at the output
\* run's id and no other; no call but submitCompaction adds an entry; so a
\* second finishCompaction of the same run meets no entry, and leaves dbState
\* and compactions as they are.
C15_FinishIsIdempotent ==
    [][/\ FinishCommits =>
            /\ DOMAIN compactions' = DOMAIN compactions \ {Get(ret'.id)}
            /\ \A d \in DOMAIN compactions' : compactions'[d] = compactions[d]
       /\ ret'.op # "submitCompaction" => DOMAIN compactions' \subseteq DOMAIN compactions
       /\ (ret'.op = "finishCompaction" /\ ret'.line = 177) =>
            /\ Get(ret'.id) \notin DOMAIN compactions
            /\ heap'[dbState'] = heap[dbState]
            /\ compactions' = compactions
    ]_vars

\* a finishCompaction found no entry for a run that is the newest of
\* compacted, put there by the finishCompaction that removed the entry;
\* another compaction is still in flight
C15_Witness ==
    /\ ret.op = "finishCompaction"
    /\ ret.line = 177
    /\ cur.compacted # << >>
    /\ cur.compacted[1].id = Get(ret.id)
    /\ Cardinality(DOMAIN compactions) = 1

\* C17: after refreshDBState(writerState), every file of writerState.l0 that
\* no finished compaction had as a source is in l0.
C17_RefreshKeepsEveryUncompactedFile ==
    (ret.op = "refreshDBState" /\ ret.line = 170) =>
        Range(L0Ids(Get(ret.id))) \ finishedL0 \subseteq Range(L0Ids(cur))

\* C18: when finishCompaction changes the watermark, the new one is not an
\* older file than the previous one: in the newest-first order of l0, where
\* ids decrease, it is not a smaller id.
C18_WatermarkNeverMovesBackward ==
    [][(FinishCommits /\ IsPresent(cur.l0LastCompacted)) =>
          /\ IsPresent(cur'.l0LastCompacted)
          /\ Get(cur'.l0LastCompacted) >= Get(cur.l0LastCompacted)
    ]_vars

\* C19: finishCompaction of an accepted compaction fails no assertion,
\* whatever the compaction's sources.
C19_FinishNeverPanics ==
    ret.op = "finishCompaction" => fatal = "none"

\* C20: when compacted holds a run with the destination of an in-flight
\* compaction, that id is among the compaction's sorted-run sources.
C20_DestinationInCompactedIsASource ==
    \A d \in DOMAIN compactions :
        d \in Range(IdsOf(cur.compacted)) =>
            \E i \in 1..Len(compactions[d].sources) :
                /\ compactions[d].sources[i].typ = SortedRunID
                /\ compactions[d].sources[i].value = Itoa(d)

\* a compaction is in flight whose destination is a run of compacted, with
\* other runs around it
C20_Witness ==
    /\ Ready
    /\ Len(cur.compacted) = 2
    /\ \E d \in DOMAIN compactions : cur.compacted[2].id = d

====
